---- MODULE Spec2Model ----
(***************************************************************************)
(* Watt's Up: the usage ledger of src/src/WattsUpApp.js as a state machine. *)
(* The React component's state hooks are the variables; every event        *)
(* handler, effect and timer callback is one action.                       *)
(***************************************************************************)
EXTENDS Integers, Sequences, FiniteSets, TLC

(***************************************************************************)
(* Bounds of the model.                                                    *)
(***************************************************************************)
\* user events (handler calls and page loads) in one run
MaxEvents == 4
\* Date.now() ranges over 1..MaxClock
MaxClock == 2
\* Math.random() is drawn from {0/10, ..., MaxDraw/10}
MaxDraw == 1

(***************************************************************************)
(* JavaScript numbers.  A value is a record: a finite number n/d in lowest *)
(* terms (exact arithmetic stands for the doubles), NaN, or null (what     *)
(* JSON.parse yields where JSON.stringify wrote a NaN).                    *)
(***************************************************************************)
Abs(x) == IF x < 0 THEN -x ELSE x

RECURSIVE Gcd(_, _)
Gcd(a, b) == IF b = 0 THEN a ELSE Gcd(b, a % b)

Num(n, d) ==
    LET g == Gcd(Abs(n), Abs(d))
        s == IF d < 0 THEN -1 ELSE 1
    IN  [k |-> "num", n |-> (s * n) \div g, d |-> (s * d) \div g]

NaN == [k |-> "NaN", n |-> 0, d |-> 1]

Null == [k |-> "null", n |-> 0, d |-> 1]

IntNum(n) == Num(n, 1)

\* ToNumber: null coerces to +0 in arithmetic
ToNumber(v) == IF v.k = "null" THEN IntNum(0) ELSE v

IsNaN(v) == ToNumber(v).k = "NaN"

\* a * b
Mul(a, b) ==
    LET x == ToNumber(a)
        y == ToNumber(b)
    IN  IF x.k = "NaN" \/ y.k = "NaN" THEN NaN ELSE Num(x.n * y.n, x.d * y.d)

\* a / c for a nonzero integer literal c
DivBy(a, c) ==
    LET x == ToNumber(a)
    IN  IF x.k = "NaN" THEN NaN ELSE Num(x.n, x.d * c)

\* a + b
Add(a, b) ==
    LET x == ToNumber(a)
        y == ToNumber(b)
    IN  IF x.k = "NaN" \/ y.k = "NaN" THEN NaN
        ELSE Num(x.n * y.d + y.n * x.d, x.d * y.d)

\* a <= c for an integer literal c; every comparison with NaN is false
LeqInt(a, c) ==
    LET x == ToNumber(a)
    IN  x.k = "num" /\ x.n <= c * x.d

(***************************************************************************)
(* Text of the form fields, as sequences of characters.                    *)
(***************************************************************************)
Digits == {"0", "1", "2", "3", "4", "5", "6", "7", "8", "9"}

DigitVal == [c \in Digits |->
    CASE c = "0" -> 0 [] c = "1" -> 1 [] c = "2" -> 2 [] c = "3" -> 3
      [] c = "4" -> 4 [] c = "5" -> 5 [] c = "6" -> 6 [] c = "7" -> 7
      [] c = "8" -> 8 [] c = "9" -> 9]

DigitChar == [n \in 0..9 |-> CHOOSE c \in Digits : DigitVal[c] = n]

\* Number.prototype.toString of a non-negative integer
RECURSIVE NumberToString(_)
NumberToString(n) ==
    IF n < 10 THEN <<DigitChar[n]>>
    ELSE Append(NumberToString(n \div 10), DigitChar[n % 10])

\* length of the longest prefix of s[from..] made of digits
RECURSIVE DigitRun(_, _)
DigitRun(s, from) ==
    IF from <= Len(s) /\ s[from] \in Digits THEN 1 + DigitRun(s, from + 1) ELSE 0

\* value of the digits s[from..from+len-1], continuing from acc
RECURSIVE DigitsValue(_, _, _, _)
DigitsValue(s, from, len, acc) ==
    IF len = 0 THEN acc
    ELSE DigitsValue(s, from + 1, len - 1, 10 * acc + DigitVal[s[from]])

RECURSIVE Pow10(_)
Pow10(k) == IF k = 0 THEN 1 ELSE 10 * Pow10(k - 1)

\* parseInt(text, 10): the leading run of digits, NaN when there is none
ParseInt(s) ==
    LET len == DigitRun(s, 1)
    IN  IF len = 0 THEN NaN ELSE IntNum(DigitsValue(s, 1, len, 0))

\* parseFloat(text): digits, then optionally "." and digits; NaN when
\* neither part holds a digit
ParseFloat(s) ==
    LET il   == DigitRun(s, 1)
        dot  == il + 1 <= Len(s) /\ s[il + 1] = "."
        fl   == IF dot THEN DigitRun(s, il + 2) ELSE 0
        ip   == DigitsValue(s, 1, il, 0)
        fp   == DigitsValue(s, il + 2, fl, 0)
    IN  IF il = 0 /\ fl = 0 THEN NaN
        ELSE Num(ip * Pow10(fl) + fp, Pow10(fl))

(***************************************************************************)
(* Program constants.                                                      *)
(***************************************************************************)
APPLIANCES == {
    [name |-> "Refrigerator", watts |-> 150],
    [name |-> "AC/Heater", watts |-> 1500],
    [name |-> "Laptop", watts |-> 50],
    [name |-> "Desktop Computer", watts |-> 200],
    [name |-> "TV", watts |-> 100],
    [name |-> "Microwave", watts |-> 1000],
    [name |-> "Washing Machine", watts |-> 500],
    [name |-> "Dryer", watts |-> 3000],
    [name |-> "Light Bulb (LED)", watts |-> 9],
    [name |-> "Light Bulb (Incandescent)", watts |-> 60],
    [name |-> "Dishwasher", watts |-> 1200],
    [name |-> "Electric Oven", watts |-> 2150],
    [name |-> "Coffee Maker", watts |-> 1000],
    [name |-> "Toaster", watts |-> 1100],
    [name |-> "Hair Dryer", watts |-> 1800],
    [name |-> "Ceiling Fan", watts |-> 75],
    [name |-> "Router/Modem", watts |-> 15],
    [name |-> "Gaming Console", watts |-> 150],
    [name |-> "Phone Charger", watts |-> 5],
    [name |-> "Other", watts |-> 0]}

US_AVERAGE_KWH == 30

ENERGY_TIPS_LENGTH == 10

DefaultHours == 24

Tabs == {"calculator", "insights", "learn"}

(***************************************************************************)
(* Inputs the events are drawn from.                                       *)
(***************************************************************************)
\* options of the appliance <select> that are chosen
Selectable == {"Refrigerator", "AC/Heater"}
\* texts typed into the watts field: empty, a decimal
WattsTexts == {<<>>, <<"7", ".", "5">>}
\* texts typed into the hours field: empty, a fraction
HoursTexts == {<<>>, <<"0", ".", "5">>}
\* ids handleDeleteItem is called with
Ids == 1..MaxClock
\* values of Math.random(), in tenths
Draws == 0..MaxDraw

VARIABLES
    usageItems,            \* useState([]): the ledger
    newAppliance,          \* useState('Refrigerator')
    newWatts,              \* useState(150), as the text parseInt reads
    newHours,              \* useState(24), as the text parseFloat reads
    totalKwh,              \* useState(0)
    comparisonPercentage,  \* useState(0)
    randomTip,             \* useState(''): index into ENERGY_TIPS, -1 for ''
    activeTab,             \* useState('calculator')
    isSaved,               \* useState(false)
    store,                 \* localStorage['wattsUpData']
    timers,                \* outstanding setTimeout callbacks of saveData
    now,                   \* what Date.now() returns
    phase,                 \* "mount": rendered once, effects not yet run;
                           \* "running"; "crashed": an uncaught error has
                           \* unmounted the component tree
    effectPending,         \* usageItems was replaced and the effect of
                           \* lines 101-112 has not yet run for it
    last,                  \* the last operation on the ledger (restore,
                           \* append, delete), with its argument
    events,                \* user events so far
    shown,                 \* the efficiency paragraph of the last render
    saved                  \* the ledger the last saveData serialised

vars == <<usageItems, newAppliance, newWatts, newHours, totalKwh,
          comparisonPercentage, randomTip, activeTab, isSaved, store,
          timers, now, phase, effectPending, last, events, shown,
          saved>>

form == <<newAppliance, newWatts, newHours>>
aggregate == <<totalKwh, comparisonPercentage>>

NoOp == [op |-> "none", id |-> 0, hit |-> FALSE]

(***************************************************************************)
(* localStorage and JSON.                                                  *)
(***************************************************************************)
\* the key was never written
Absent == [kind |-> "absent", items |-> <<>>]
\* the key holds the empty string
EmptyText == [kind |-> "empty", items |-> <<>>]
\* the key holds text that is not JSON
Garbage == [kind |-> "garbage", items |-> <<>>]

\* JSON.stringify of a number: NaN is written as null
JsonNumber(v) == IF v.k = "NaN" THEN Null ELSE v

JsonEntry(e) ==
    [id |-> e.id, name |-> e.name, watts |-> JsonNumber(e.watts),
     hours |-> JsonNumber(e.hours), kWh |-> JsonNumber(e.kWh)]

\* JSON.stringify(usageItems)
JSONStringify(items) ==
    [kind |-> "json", items |-> [i \in 1..Len(items) |-> JsonEntry(items[i])]]

\* JSON.parse throws a SyntaxError on this text
ParseThrows(text) == text.kind \in {"garbage", "empty"}

\* JSON.parse(text) where it does not throw
JSONParse(text) == text.items

\* item.kWh.toFixed(2) throws a TypeError when kWh is null (line 338)
RenderThrows(items) == \E i \in 1..Len(items) : items[i].kWh.k = "null"

(***************************************************************************)
(* Pure parts of the handlers.                                             *)
(***************************************************************************)
\* watts the catalog prefills for a label, 0 when the label is unknown
CatalogWatts(selected) ==
    IF \E a \in APPLIANCES : a.name = selected
    THEN (CHOOSE a \in APPLIANCES : a.name = selected).watts
    ELSE 0

\* Math.floor(Math.random() * ENERGY_TIPS.length), random = draw / 10
TipIndex(draw) == (draw * ENERGY_TIPS_LENGTH) \div 10

\* NewItem with the division by 1000 forgotten
NewItem_NoDivision(id, appliance, wattsText, hoursText) ==
    [id    |-> id,
     name  |-> appliance,
     watts |-> ParseInt(wattsText),
     hours |-> ParseFloat(hoursText),
     kWh   |-> Mul(ParseInt(wattsText), ParseFloat(hoursText))]

\* NewItem with hours that fall back to 24 when the text is not a number
NewItem_HoursFallback(id, appliance, wattsText, hoursText) ==
    LET h == IF IsNaN(ParseFloat(hoursText)) THEN IntNum(DefaultHours)
             ELSE ParseFloat(hoursText)
    IN  [id    |-> id,
         name  |-> appliance,
         watts |-> ParseInt(wattsText),
         hours |-> h,
         kWh   |-> DivBy(Mul(ParseInt(wattsText), h), 1000)]

\* the object literal of handleAddAppliance
NewItem(id, appliance, wattsText, hoursText) ==
    [id    |-> id,
     name  |-> appliance,
     watts |-> ParseInt(wattsText),
     hours |-> ParseFloat(hoursText),
     kWh   |-> DivBy(Mul(ParseInt(wattsText), ParseFloat(hoursText)), 1000)]

\* FilterOut as splice(findIndex(...), 1): an index of -1 removes the last row
FilterOut_Splice(items, id) ==
    IF \E i \in 1..Len(items) : items[i].id = id
    THEN LET i == CHOOSE i \in 1..Len(items) :
                      /\ items[i].id = id
                      /\ \A j \in 1..(i - 1) : items[j].id # id
         IN  SubSeq(items, 1, i - 1) \o SubSeq(items, i + 1, Len(items))
    ELSE SubSeq(items, 1, Len(items) - 1)

\* usageItems.filter(item => item.id !== id)
FilterOut(items, id) == SelectSeq(items, LAMBDA item : item.id # id)

\* ReduceTotal that leaves out the first item
RECURSIVE ReduceTotal_SkipsFirst(_, _)
ReduceTotal_SkipsFirst(items, sum) ==
    IF Len(items) <= 1 THEN sum
    ELSE Add(ReduceTotal_SkipsFirst(SubSeq(items, 1, Len(items) - 1), sum),
             DivBy(Mul(items[Len(items)].watts, items[Len(items)].hours), 1000))

\* usageItems.reduce((sum, item) => sum + (item.watts * item.hours) / 1000, 0)
RECURSIVE ReduceTotal(_, _)
ReduceTotal(items, sum) ==
    IF items = <<>> THEN sum
    ELSE ReduceTotal(Tail(items),
                     Add(sum, DivBy(Mul(Head(items).watts, Head(items).hours), 1000)))

\* PercentageOf with the two constants exchanged
PercentageOf_Swapped(total) == Mul(DivBy(total, 100), IntNum(US_AVERAGE_KWH))

\* (total / US_AVERAGE_KWH) * 100
PercentageOf(total) == Mul(DivBy(total, US_AVERAGE_KWH), IntNum(100))

\* getEfficiencyClass with strict comparisons
getEfficiencyClass_Strict(pct) ==
    IF LeqInt(pct, 50) /\ pct # IntNum(50) THEN "text-green-500"
    ELSE IF LeqInt(pct, 80) /\ pct # IntNum(80) THEN "text-green-400"
    ELSE IF LeqInt(pct, 120) /\ pct # IntNum(120) THEN "text-yellow-500"
    ELSE "text-red-500"

\* className of the efficiency message
getEfficiencyClass(pct) ==
    IF LeqInt(pct, 50) THEN "text-green-500"
    ELSE IF LeqInt(pct, 80) THEN "text-green-400"
    ELSE IF LeqInt(pct, 120) THEN "text-yellow-500"
    ELSE "text-red-500"

\* aria-label of the efficiency message that is rendered
EfficiencyMessage(pct) ==
    IF LeqInt(pct, 50) THEN "Excellent"
    ELSE IF LeqInt(pct, 80) THEN "Good"
    ELSE IF LeqInt(pct, 120) THEN "Average"
    ELSE "Warning"

\* nothing is rendered in place of the efficiency paragraph
NotShown == [class |-> "", message |-> ""]

\* the <p> of lines 392-410: rendered in the insights tab when the ledger
\* is not empty
Paragraph(ph, tab, items, pct) ==
    IF ph = "running" /\ tab = "insights" /\ Len(items) > 0
    THEN [class |-> getEfficiencyClass(pct), message |-> EfficiencyMessage(pct)]
    ELSE NotShown

(***************************************************************************)
(* The state after the first render: every hook holds its initial value.   *)
(***************************************************************************)
FirstRender ==
    /\ usageItems = <<>>
    /\ newAppliance = "Refrigerator"
    /\ newWatts = NumberToString(150)
    /\ newHours = NumberToString(DefaultHours)
    /\ totalKwh = IntNum(0)
    /\ comparisonPercentage = IntNum(0)
    /\ randomTip = -1
    /\ activeTab = "calculator"
    /\ isSaved = FALSE
    /\ timers = 0
    /\ phase = "mount"
    /\ effectPending = FALSE
    /\ last = NoOp
    /\ shown = NotShown

Init ==
    /\ FirstRender
    /\ store \in {Absent, EmptyText, Garbage}
    /\ now = 1
    /\ events = 0
    /\ saved = <<>>

(***************************************************************************)
(* Effects.                                                                *)
(***************************************************************************)
\* The two effects of the first render, in order: the load (88-95) and the
\* recompute (101-112) over the empty ledger it was rendered with; then the
\* render of the state they set.
Mount(draw) ==
    /\ phase = "mount"
    /\ IF store.kind \in {"absent", "empty"}
       THEN \* getItem gave null or '': nothing is parsed
            /\ randomTip' = TipIndex(draw)
            /\ phase' = "running"
            /\ UNCHANGED <<usageItems, effectPending>>
       ELSE IF ParseThrows(store)
       THEN \* the SyntaxError leaves the effect: the tree is unmounted
            /\ phase' = "crashed"
            /\ UNCHANGED <<usageItems, randomTip, effectPending>>
       ELSE IF RenderThrows(JSONParse(store))
       THEN \* rendering the restored rows throws: the tree is unmounted
            /\ phase' = "crashed"
            /\ UNCHANGED <<usageItems, randomTip, effectPending>>
       ELSE /\ usageItems' = JSONParse(store)
            /\ randomTip' = TipIndex(draw)
            /\ phase' = "running"
            /\ effectPending' = TRUE
    /\ totalKwh' = ReduceTotal(<<>>, IntNum(0))
    /\ comparisonPercentage' = PercentageOf(ReduceTotal(<<>>, IntNum(0)))
    /\ isSaved' = FALSE
    /\ last' = [op |-> "restore", id |-> 0, hit |-> store.kind = "json"]
    /\ UNCHANGED <<form, activeTab, store, timers, now, events>>
    /\ shown' = Paragraph(phase', activeTab', usageItems', comparisonPercentage')
    /\ UNCHANGED saved

\* Recompute without the reset of the saved indicator
Recompute_KeepsSaved ==
    /\ phase = "running"
    /\ effectPending
    /\ totalKwh' = ReduceTotal(usageItems, IntNum(0))
    /\ comparisonPercentage' = PercentageOf(ReduceTotal(usageItems, IntNum(0)))
    /\ effectPending' = FALSE
    /\ UNCHANGED <<usageItems, form, randomTip, activeTab, store, timers, now,
                   phase, last, events, isSaved>>
    /\ shown' = Paragraph(phase', activeTab', usageItems', comparisonPercentage')
    /\ UNCHANGED saved

\* Recompute that also writes the ledger to localStorage on every change
Recompute_AutoSaves ==
    /\ phase = "running"
    /\ effectPending
    /\ totalKwh' = ReduceTotal(usageItems, IntNum(0))
    /\ comparisonPercentage' = PercentageOf(ReduceTotal(usageItems, IntNum(0)))
    /\ isSaved' = FALSE
    /\ effectPending' = FALSE
    /\ store' = JSONStringify(usageItems)
    /\ UNCHANGED <<usageItems, form, randomTip, activeTab, timers, now,
                   phase, last, events>>
    /\ shown' = Paragraph(phase', activeTab', usageItems', comparisonPercentage')
    /\ UNCHANGED saved

\* useEffect(..., [usageItems]) after a render that replaced usageItems
Recompute ==
    /\ phase = "running"
    /\ effectPending
    /\ totalKwh' = ReduceTotal(usageItems, IntNum(0))
    /\ comparisonPercentage' = PercentageOf(ReduceTotal(usageItems, IntNum(0)))
    /\ isSaved' = FALSE
    /\ effectPending' = FALSE
    /\ UNCHANGED <<usageItems, form, randomTip, activeTab, store, timers, now,
                   phase, last, events>>
    /\ shown' = Paragraph(phase', activeTab', usageItems', comparisonPercentage')
    /\ UNCHANGED saved

(***************************************************************************)
(* Event handlers.  React runs the pending effect before the next event is *)
(* handled, so every handler starts with no effect pending.                *)
(***************************************************************************)
Idle == phase = "running" /\ ~effectPending

\* one more user event
Event == events <= MaxEvents - 1 /\ events' = events + 1

\* the form, the save button and the rows are rendered in this tab only
OnCalculator == activeTab = "calculator"

handleAddAppliance ==
    /\ Idle
    /\ OnCalculator
    /\ Event
    /\ usageItems' = Append(usageItems, NewItem(now, newAppliance, newWatts, newHours))
    /\ newHours' = NumberToString(DefaultHours)
    /\ effectPending' = TRUE
    /\ last' = [op |-> "append", id |-> now, hit |-> TRUE]
    /\ UNCHANGED <<newAppliance, newWatts, aggregate, randomTip, activeTab, isSaved,
                   store, timers, now, phase>>
    /\ shown' = Paragraph(phase', activeTab', usageItems', comparisonPercentage')
    /\ UNCHANGED saved

\* handleApplianceChange that also writes the catalog wattage into the
\* entries of the ledger that carry the selected label
handleApplianceChange_EditsLedger(selected) ==
    /\ Idle
    /\ OnCalculator
    /\ Event
    /\ newAppliance' = selected
    /\ newWatts' = NumberToString(CatalogWatts(selected))
    /\ usageItems' = [i \in 1..Len(usageItems) |->
                        IF usageItems[i].name = selected
                        THEN [usageItems[i] EXCEPT !.watts = IntNum(CatalogWatts(selected))]
                        ELSE usageItems[i]]
    /\ UNCHANGED last
    /\ UNCHANGED <<newHours, aggregate, randomTip, activeTab, isSaved,
                   store, timers, now, phase, effectPending>>
    /\ shown' = Paragraph(phase', activeTab', usageItems', comparisonPercentage')
    /\ UNCHANGED saved

handleApplianceChange(selected) ==
    /\ Idle
    /\ OnCalculator
    /\ Event
    /\ newAppliance' = selected
    /\ newWatts' = NumberToString(CatalogWatts(selected))
    /\ UNCHANGED last
    /\ UNCHANGED <<usageItems, newHours, aggregate, randomTip, activeTab, isSaved,
                   store, timers, now, phase, effectPending>>
    /\ shown' = Paragraph(phase', activeTab', usageItems', comparisonPercentage')
    /\ UNCHANGED saved

\* onChange of the watts field (line 284)
setNewWatts(text) ==
    /\ Idle
    /\ OnCalculator
    /\ Event
    /\ newWatts' = text
    /\ UNCHANGED last
    /\ UNCHANGED <<usageItems, newAppliance, newHours, aggregate, randomTip,
                   activeTab, isSaved, store, timers, now, phase, effectPending>>
    /\ shown' = Paragraph(phase', activeTab', usageItems', comparisonPercentage')
    /\ UNCHANGED saved

\* onChange of the hours field (line 297)
setNewHours(text) ==
    /\ Idle
    /\ OnCalculator
    /\ Event
    /\ newHours' = text
    /\ UNCHANGED last
    /\ UNCHANGED <<usageItems, newAppliance, newWatts, aggregate, randomTip,
                   activeTab, isSaved, store, timers, now, phase, effectPending>>
    /\ shown' = Paragraph(phase', activeTab', usageItems', comparisonPercentage')
    /\ UNCHANGED saved

handleDeleteItem(id) ==
    /\ Idle
    /\ OnCalculator
    /\ Event
    /\ usageItems' = FilterOut(usageItems, id)
    /\ effectPending' = TRUE
    /\ last' = [op |-> "delete", id |-> id,
                hit |-> \E i \in 1..Len(usageItems) : usageItems[i].id = id]
    /\ UNCHANGED <<form, aggregate, randomTip, activeTab, isSaved, store, timers,
                   now, phase>>
    /\ shown' = Paragraph(phase', activeTab', usageItems', comparisonPercentage')
    /\ UNCHANGED saved

getNewTip(draw) ==
    /\ Idle
    /\ activeTab = "insights" /\ Len(usageItems) > 0
    /\ Event
    /\ randomTip' = TipIndex(draw)
    /\ UNCHANGED last
    /\ UNCHANGED <<usageItems, form, aggregate, activeTab, isSaved, store, timers,
                   now, phase, effectPending>>
    /\ shown' = Paragraph(phase', activeTab', usageItems', comparisonPercentage')
    /\ UNCHANGED saved

saveData ==
    /\ Idle
    /\ OnCalculator
    /\ Event
    /\ store' = JSONStringify(usageItems)
    /\ isSaved' = TRUE
    /\ timers' = timers + 1
    /\ UNCHANGED last
    /\ UNCHANGED <<usageItems, form, aggregate, randomTip, activeTab, now, phase,
                   effectPending>>
    /\ shown' = Paragraph(phase', activeTab', usageItems', comparisonPercentage')
    /\ saved' = usageItems

\* TimerFire whose callback does not clear the indicator
TimerFire_NoReset ==
    /\ Idle
    /\ timers > 0
    /\ timers' = timers - 1
    /\ UNCHANGED last
    /\ UNCHANGED <<usageItems, form, aggregate, randomTip, activeTab, store, now,
                   phase, effectPending, events, isSaved>>
    /\ shown' = Paragraph(phase', activeTab', usageItems', comparisonPercentage')
    /\ UNCHANGED saved

\* the callback of saveData's setTimeout
TimerFire ==
    /\ Idle
    /\ timers > 0
    /\ isSaved' = FALSE
    /\ timers' = timers - 1
    /\ UNCHANGED last
    /\ UNCHANGED <<usageItems, form, aggregate, randomTip, activeTab, store, now,
                   phase, effectPending, events>>
    /\ shown' = Paragraph(phase', activeTab', usageItems', comparisonPercentage')
    /\ UNCHANGED saved

\* onClick of a navigation tab (lines 198, 208, 218)
setActiveTab(tab) ==
    /\ Idle
    /\ Event
    /\ activeTab' = tab
    /\ UNCHANGED last
    /\ UNCHANGED <<usageItems, form, aggregate, randomTip, isSaved, store, timers,
                   now, phase, effectPending>>
    /\ shown' = Paragraph(phase', activeTab', usageItems', comparisonPercentage')
    /\ UNCHANGED saved

(***************************************************************************)
(* The environment: the clock advances; the page is loaded again, which    *)
(* starts a new session over the same localStorage.                        *)
(***************************************************************************)
Tick ==
    /\ now <= MaxClock - 1
    /\ now' = now + 1
    /\ UNCHANGED <<usageItems, form, aggregate, randomTip, activeTab, isSaved,
                   store, timers, phase, effectPending, last, events>>
    /\ shown' = Paragraph(phase', activeTab', usageItems', comparisonPercentage')
    /\ UNCHANGED saved

Reload ==
    /\ phase # "mount"
    /\ Event
    /\ usageItems' = <<>>
    /\ newAppliance' = "Refrigerator"
    /\ newWatts' = NumberToString(150)
    /\ newHours' = NumberToString(DefaultHours)
    /\ totalKwh' = IntNum(0)
    /\ comparisonPercentage' = IntNum(0)
    /\ randomTip' = -1
    /\ activeTab' = "calculator"
    /\ isSaved' = FALSE
    /\ timers' = 0
    /\ phase' = "mount"
    /\ effectPending' = FALSE
    /\ last' = NoOp
    /\ UNCHANGED <<store, now>>
    /\ shown' = Paragraph(phase', activeTab', usageItems', comparisonPercentage')
    /\ UNCHANGED saved

Next ==
    \/ \E draw \in Draws : Mount(draw)
    \/ Recompute
    \/ handleAddAppliance
    \/ \E selected \in Selectable : handleApplianceChange(selected)
    \/ \E text \in WattsTexts : setNewWatts(text)
    \/ \E text \in HoursTexts : setNewHours(text)
    \/ \E id \in Ids : handleDeleteItem(id)
    \/ \E draw \in Draws : getNewTip(draw)
    \/ saveData
    \/ TimerFire
    \/ \E tab \in Tabs : setActiveTab(tab)
    \/ Tick
    \/ Reload

Spec == Init /\ [][Next]_vars

\* WF_vars(Recompute) written out: Recompute is enabled exactly when the
\* component runs with the effect pending, and every Recompute step
\* changes effectPending.
RecomputeFair ==
    \/ []<>~(phase = "running" /\ effectPending)
    \/ []<><<Recompute>>_vars

\* The browser runs every timeout that is due and React runs every pending
\* effect: neither waits forever.
SpecFair == Init /\ [][Next]_vars /\ WF_vars(TimerFire) /\ RecomputeFair

(***************************************************************************)
(* The efficiency band over a range of percentages: a session that starts  *)
(* with no stored data and a wattage typed into the form, in which entries *)
(* are added and the tabs are visited.  At 24 hours a day w watts are      *)
(* 0.08 w percent, so 625, 1000 and 1500 watts sit on the thresholds.      *)
(***************************************************************************)
\* wattages are typed in steps of 25 up to 25 * MaxWattSteps
MaxWattSteps == 80

BandWatts == {25 * k : k \in 0..MaxWattSteps} \cup {626, 1001, 1501}

InitBand ==
    /\ usageItems = <<>>
    /\ newAppliance = "Refrigerator"
    /\ newWatts \in {NumberToString(w) : w \in BandWatts} \cup {<<>>}
    /\ newHours = NumberToString(DefaultHours)
    /\ totalKwh = IntNum(0)
    /\ comparisonPercentage = IntNum(0)
    /\ randomTip = TipIndex(0)
    /\ activeTab = "calculator"
    /\ isSaved = FALSE
    /\ store = Absent
    /\ timers = 0
    /\ now = 1
    /\ phase = "running"
    /\ effectPending = FALSE
    /\ last = [op |-> "restore", id |-> 0, hit |-> FALSE]
    /\ events = 0
    /\ shown = NotShown
    /\ saved = <<>>

NextBand ==
    \/ handleAddAppliance
    \/ Recompute
    \/ \E tab \in Tabs : setActiveTab(tab)

SpecBand == InitBand /\ [][NextBand]_vars

(***************************************************************************)
(* Properties.                                                             *)
(***************************************************************************)
LastItem(items) == items[Len(items)]

RemoveAt(items, i) == SubSeq(items, 1, i - 1) \o SubSeq(items, i + 1, Len(items))

HasId(items, id) == \E i \in 1..Len(items) : items[i].id = id

\* the sum of the stored kWh fields, null counting as 0
RECURSIVE SumKwh(_)
SumKwh(items) ==
    IF items = <<>> THEN IntNum(0)
    ELSE Add(SumKwh(SubSeq(items, 1, Len(items) - 1)), LastItem(items).kWh)

IsNum(v) == v.k = "num"

\* C1: the entry handleAddAppliance appends, when its watts and hours are
\* numbers, stores kWh with kWh * 1000 = watts * hours.
C1_AppendStoresKwh ==
    [][handleAddAppliance =>
        LET e == LastItem(usageItems')
        IN  (IsNum(e.watts) /\ IsNum(e.hours)) =>
                /\ IsNum(e.kWh)
                /\ Mul(e.kWh, IntNum(1000)) = Mul(e.watts, e.hours)]_vars

\* C1 witness: an append of a valid pair has just run and stored a kWh that
\* is not a whole number.
C1_Witness ==
    /\ last.op = "append" /\ effectPending
    /\ IsNum(LastItem(usageItems).watts) /\ IsNum(LastItem(usageItems).hours)
    /\ LastItem(usageItems).hours.d # 1
    /\ LastItem(usageItems).kWh.d # 1

\* C2: whenever the recompute is not pending, totalKwh is the sum of the
\* kWh fields of the entries in the ledger, and 0 for the empty ledger.
C2_TotalIsSumOfKwh ==
    ~effectPending =>
        /\ totalKwh = SumKwh(usageItems)
        /\ (usageItems = <<>> => totalKwh = IntNum(0))

\* C2 witness: two entries were restored from the store, the recompute has
\* run and the total is a number other than 0.
C2_Witness ==
    /\ last.op = "restore" /\ last.hit /\ ~effectPending /\ phase = "running"
    /\ Len(usageItems) = 2
    /\ IsNum(totalKwh) /\ totalKwh.n > 0

\* C3: whenever the recompute is not pending, comparisonPercentage is
\* totalKwh / 30 * 100 (NaN for a NaN total), it is 0 for the empty ledger,
\* and the percentage of twice the total is twice the percentage.
C3_PercentageOfTotal ==
    ~effectPending =>
        /\ IF IsNum(totalKwh)
           THEN /\ IsNum(comparisonPercentage)
                /\ Mul(comparisonPercentage, IntNum(30))
                     = Mul(totalKwh, IntNum(100))
           ELSE comparisonPercentage = NaN
        /\ (usageItems = <<>> => comparisonPercentage = IntNum(0))
        /\ PercentageOf(Mul(IntNum(2), totalKwh))
             = Mul(IntNum(2), comparisonPercentage)

\* C3 witness: after an append and its recompute the percentage is a
\* positive number that is not whole.
C3_Witness ==
    /\ last.op = "append" /\ ~effectPending
    /\ IsNum(comparisonPercentage) /\ comparisonPercentage.n > 0
    /\ comparisonPercentage.d # 1

\* C4 (as claimed): handleDeleteItem(id) for an id in the ledger removes
\* exactly one entry, the others stay in order, and the sum of kWh drops by
\* that entry's kWh.
C4_RemoveDeletesExactlyOne ==
    [][\A id \in Ids :
        (handleDeleteItem(id) /\ HasId(usageItems, id)) =>
            \E i \in 1..Len(usageItems) :
                /\ usageItems[i].id = id
                /\ usageItems' = RemoveAt(usageItems, i)
                /\ Add(SumKwh(usageItems'), usageItems[i].kWh)
                     = SumKwh(usageItems)]_vars

\* C5: handleDeleteItem(id) for an id no entry has leaves usageItems,
\* totalKwh and comparisonPercentage as they were, and so does the
\* recompute that follows it.
C5_RemoveAbsentIsNoOp ==
    [][/\ \A id \in Ids :
            (handleDeleteItem(id) /\ ~HasId(usageItems, id)) =>
                /\ usageItems' = usageItems
                /\ totalKwh' = totalKwh
                /\ comparisonPercentage' = comparisonPercentage
                /\ phase' = "running"
       /\ (Recompute /\ last.op = "delete" /\ ~last.hit) =>
                /\ usageItems' = usageItems
                /\ totalKwh' = totalKwh
                /\ comparisonPercentage' = comparisonPercentage]_vars

\* C5 witness: a delete of an absent id and its recompute have run on a
\* ledger that holds an entry.
C5_Witness ==
    /\ last.op = "delete" /\ ~last.hit /\ ~effectPending
    /\ Len(usageItems) > 0
    /\ ~HasId(usageItems, last.id)

\* C6 (as claimed): the entries of the ledger have pairwise distinct ids.
C6_IdsDistinct ==
    \A i, j \in 1..Len(usageItems) :
        i # j => usageItems[i].id # usageItems[j].id

\* C7 (as claimed): once a saved ledger has been restored and recomputed,
\* the application runs with the entry sequence that was saved and with
\* its total.
C7_RoundTrip ==
    (last.op = "restore" /\ last.hit /\ ~effectPending) =>
        /\ phase = "running"
        /\ usageItems = saved
        /\ totalKwh = ReduceTotal(saved, IntNum(0))

\* C8 (as claimed): a session that started over a stored value that is not
\* JSON runs with the empty ledger.
C8_MalformedFallsBack ==
    (last.op = "restore" /\ store.kind = "garbage") =>
        /\ phase = "running"
        /\ usageItems = <<>>

Band(pct) ==
    IF IsNum(pct) /\ pct.n <= 50 * pct.d THEN "EXCELLENT"
    ELSE IF IsNum(pct) /\ pct.n <= 80 * pct.d THEN "GOOD"
    ELSE IF IsNum(pct) /\ pct.n <= 120 * pct.d THEN "AVERAGE"
    ELSE "ABOVE_AVERAGE"

BandOfClass(class) ==
    CASE class = "text-green-500" -> "EXCELLENT"
      [] class = "text-green-400" -> "GOOD"
      [] class = "text-yellow-500" -> "AVERAGE"
      [] class = "text-red-500" -> "ABOVE_AVERAGE"

BandOfMessage(message) ==
    CASE message = "Excellent" -> "EXCELLENT"
      [] message = "Good" -> "GOOD"
      [] message = "Average" -> "AVERAGE"
      [] message = "Warning" -> "ABOVE_AVERAGE"

\* C10: whenever the efficiency paragraph is rendered, its colour class
\* and its message are both those of the band of comparisonPercentage,
\* with 50, 80 and 120 in the lower band.
C10_BandOfPercentage ==
    shown # NotShown =>
        /\ BandOfClass(shown.class) = Band(comparisonPercentage)
        /\ BandOfMessage(shown.message) = Band(comparisonPercentage)

\* C10 witness: the paragraph is rendered for a percentage of exactly 50,
\* 80 or 120.
C10_Witness ==
    /\ shown # NotShown
    /\ ~effectPending
    /\ comparisonPercentage \in {IntNum(50), IntNum(80), IntNum(120)}

\* a is b with some of its entries left out
RECURSIVE IsSubseq(_, _)
IsSubseq(a, b) ==
    IF a = <<>> THEN TRUE
    ELSE IF b = <<>> THEN FALSE
    ELSE IF Head(a) = Head(b) THEN IsSubseq(Tail(a), Tail(b))
    ELSE IsSubseq(a, Tail(b))

\* the steps that are neither the session start, an append nor a remove
OtherStep ==
    \/ Recompute
    \/ \E selected \in Selectable : handleApplianceChange(selected)
    \/ \E text \in WattsTexts : setNewWatts(text)
    \/ \E text \in HoursTexts : setNewHours(text)
    \/ \E draw \in Draws : getNewTip(draw)
    \/ saveData
    \/ TimerFire
    \/ \E tab \in Tabs : setActiveTab(tab)
    \/ Tick

\* C11: usageItems changes only in a page load with its restore, in an
\* append (one entry more at the end, the others as they were) and in a
\* remove (entries left out, the others as they were, in order); every
\* other step leaves it unchanged.
C11_LedgerFrame ==
    [][/\ usageItems' # usageItems =>
            \/ Reload
            \/ \E draw \in Draws : Mount(draw)
            \/ handleAddAppliance
            \/ \E id \in Ids : handleDeleteItem(id)
       /\ handleAddAppliance =>
            /\ Len(usageItems') = Len(usageItems) + 1
            /\ SubSeq(usageItems', 1, Len(usageItems)) = usageItems
       /\ (\E id \in Ids : handleDeleteItem(id)) => IsSubseq(usageItems', usageItems)
       /\ OtherStep => usageItems' = usageItems]_vars

\* C11 witness: with an entry in the ledger an appliance was selected, the
\* ledger was saved and the insights tab was opened.
C11_Witness ==
    /\ Len(usageItems) = 1
    /\ isSaved /\ timers > 0
    /\ newAppliance = "AC/Heater"
    /\ activeTab = "insights"

\* C12: the store changes only in saveData, which sets it to the
\* serialisation of the ledger of that moment; every other step leaves it
\* unchanged, so a ledger restored at the next page load is the
\* serialisation of the ledger of the last save, whatever was appended or
\* removed after it.
C12_StoreFrame ==
    [][/\ store' # store => saveData
       /\ saveData => store' = JSONStringify(usageItems)
       /\ (\/ \E draw \in Draws : Mount(draw)
           \/ Reload
           \/ handleAddAppliance
           \/ \E id \in Ids : handleDeleteItem(id)
           \/ OtherStep /\ ~saveData) => store' = store
       /\ ((\E draw \in Draws : Mount(draw)) /\ store.kind = "json" /\ phase' = "running")
            => usageItems' = JSONStringify(saved).items]_vars

\* C12 witness: an entry was appended after the last save and the store
\* still holds the shorter ledger that was saved.
C12_Witness ==
    /\ store.kind = "json"
    /\ last.op = "append" /\ ~effectPending
    /\ Len(usageItems) = Len(store.items) + 1
    /\ store = JSONStringify(saved)
    /\ store # JSONStringify(usageItems)

\* C13: saveData sets isSaved; the recompute that follows an append, a
\* remove or the restore clears it; and, the timer callback and the effect
\* being run when they are due, a set isSaved is eventually cleared.
C13_SavedIndicator ==
    /\ [][saveData => isSaved']_vars
    /\ [][Recompute => ~isSaved']_vars
    /\ (isSaved ~> ~isSaved)

\* C13 witness: the ledger holds an entry, it was saved and the indicator
\* is set with the timeout outstanding.
C13_Witness ==
    /\ isSaved /\ timers = 1
    /\ Len(usageItems) > 0
    /\ store = JSONStringify(usageItems)

\* C14: in every state with no recompute pending in which isSaved is set,
\* localStorage holds the serialisation of the ledger as it is.
C14_SavedMeansStored ==
    (~effectPending /\ isSaved) => store = JSONStringify(usageItems)

\* C14 witness: two entries were appended and then saved; the indicator is
\* set and no recompute is pending.
C14_Witness ==
    /\ isSaved /\ ~effectPending
    /\ Len(usageItems) = 2
    /\ last.op = "append"

\* C15: the indicator set by a saveData call stays set until that call's own
\* timer fires or the ledger changes: a step that clears a set indicator is
\* the recompute after a ledger change, a reload of the page, or the firing of
\* the timer of the latest saveData call, which is the only one outstanding
\* (timers fire in the order they were scheduled, all after the same delay).
C15_OwnTimerOnly ==
    [][(isSaved /\ ~isSaved') =>
          \/ Recompute
          \/ Reload
          \/ TimerFire /\ timers = 1]_vars

====
